---- MODULE Spec2Model ----
(***************************************************************************)
(* A model of thunderdome's object-graph mapper: class declaration through *)
(* the element metaclasses and the two type registries (models.py), and    *)
(* the instance operations (construct, field write, save, delete, fetch,   *)
(* traverse) against the remote graph service reached through              *)
(* execute_query (connection.py).                                          *)
(***************************************************************************)
EXTENDS Integers, Sequences, FiniteSets, TLC

VARIABLES
    classes,        \* the class objects created so far, in creation order
    vertex_types,   \* models.vertex_types: element type -> index in classes
    edge_types,     \* models.edge_types:   label        -> index in classes
    last_decl,      \* outcome of the latest class statement
    v_inst,         \* the program's Vertex objects, one per variable slot
    e_inst,         \* the program's Edge objects, one per variable slot
    srv_v,          \* remote graph: vertex id -> element
    srv_e,          \* remote graph: edge id -> element
    next_id,        \* remote graph: the next identifier it hands out
    gen_count,      \* how many default vids have been generated
    last,           \* outcome of the latest instance operation
    gremlin_file,   \* the lines of the groovy source file beside the models
    method          \* a script binding object (BaseGremlinMethod)

declVars == <<classes, vertex_types, edge_types, last_decl>>
ioVars == <<v_inst, e_inst, srv_v, srv_e, next_id, gen_count, last>>
scriptVars == <<gremlin_file, method>>
vars == <<classes, vertex_types, edge_types, last_decl,
          v_inst, e_inst, srv_v, srv_e, next_id, gen_count, last,
          gremlin_file, method>>

(***************************************************************************)
(* Bounds of the declaration model.                                        *)
(***************************************************************************)
MaxClasses == 2

(***************************************************************************)
(* Bounds of the instance model.                                           *)
(***************************************************************************)
NumVertexSlots == 2
NumEdgeSlots == 1
MaxId == 4
MaxGen == 1

(***************************************************************************)
(* Bounds of the script model.                                             *)
(***************************************************************************)
MaxLines == 4

\* Python's None for strings (db_field, exception slot) and for names.
NoStr == ""
NoName == <<>>

(***************************************************************************)
(* Names are sequences of one-character strings, so that _type_name can    *)
(* be computed character by character.                                     *)
(***************************************************************************)
UpperChars == {"A", "B", "D", "E", "M", "N", "T", "V", "W"}

lower(c) ==
    CASE c = "A" -> "a"
      [] c = "B" -> "b"
      [] c = "D" -> "d"
      [] c = "E" -> "e"
      [] c = "M" -> "m"
      [] c = "N" -> "n"
      [] c = "T" -> "t"
      [] c = "V" -> "v"
      [] c = "W" -> "w"
      [] OTHER -> c

IsUpper(c) == c \in UpperChars
IsLower(c) == c \notin UpperChars /\ c # "_"

str_lower(s) == [i \in 1..Len(s) |-> lower(s[i])]

\* camelcase.sub: every lower-case letter followed by an upper-case letter
\* becomes the lower-case letter, "_", and the second letter lowered.
RECURSIVE ccase(_)
ccase(s) ==
    IF Len(s) < 2 THEN s
    ELSE IF IsLower(s[1]) /\ IsUpper(s[2])
         THEN <<s[1], "_", lower(s[2])>> \o ccase(Tail(Tail(s)))
         ELSE <<s[1]>> \o ccase(Tail(s))

type_name(cls_name, manual_name) ==
    IF manual_name # NoName
    THEN str_lower(manual_name)
    ELSE str_lower(ccase(cls_name))

(***************************************************************************)
(* Column descriptors.  The columns module is not among the sources; a     *)
(* descriptor carries what models.py reads from it.                        *)
(***************************************************************************)
Column(ctype, db_field, position, can_delete, required) ==
    [ctype |-> ctype, db_field |-> db_field, column_name |-> NoStr,
     position |-> position, can_delete |-> can_delete, required |-> required]

set_column_name(col, name) == [col EXCEPT !.column_name = name]

db_field_name(col) ==
    IF col.db_field # NoStr THEN col.db_field ELSE col.column_name

(***************************************************************************)
(* OrderedDict, as a sequence of [k, v] items.                             *)
(***************************************************************************)
od_keys(d) == {d[i].k : i \in 1..Len(d)}
od_index(d, k) == CHOOSE i \in 1..Len(d) : d[i].k = k
od_get(d, k) == d[od_index(d, k)].v

\* plain assignment in place of setdefault: a later base's value replaces
\* an earlier base's
od_setdefault_overwriting(d, k, v) ==
    IF k \in od_keys(d)
    THEN [d EXCEPT ![od_index(d, k)] = [k |-> k, v |-> v]]
    ELSE Append(d, [k |-> k, v |-> v])

od_setdefault(d, k, v) ==
    IF k \in od_keys(d) THEN d ELSE Append(d, [k |-> k, v |-> v])

od_setitem(d, k, v) ==
    IF k \in od_keys(d)
    THEN [d EXCEPT ![od_index(d, k)] = [k |-> k, v |-> v]]
    ELSE Append(d, [k |-> k, v |-> v])

RECURSIVE od_setdefault_all(_, _)
od_setdefault_all(d, items) ==
    IF items = <<>> THEN d
    ELSE od_setdefault_all(od_setdefault(d, Head(items).k, Head(items).v),
                           Tail(items))

(***************************************************************************)
(* ElementMetaClass.__new__                                                *)
(***************************************************************************)
\* for base in bases: for k,v in base._columns.items(): setdefault(k, v)
RECURSIVE inherited_columns(_, _, _)
inherited_columns(cs, d, bases) ==
    IF bases = <<>> THEN d
    ELSE inherited_columns(cs, od_setdefault_all(d, cs[Head(bases)]._columns),
                           Tail(bases))

\* sorted(column_definitions, cmp on position)
RECURSIVE sorted_by_position(_)
sorted_by_position(defs) ==
    IF defs = {} THEN <<>>
    ELSE LET m == CHOOSE x \in defs :
                      \A y \in defs : x.v.position <= y.v.position
         IN  <<m>> \o sorted_by_position(defs \ {m})

\* _transform_column: column_dict[col_name] = col_obj; set_column_name
transform_column(column_dict, col_name, col_obj) ==
    od_setitem(column_dict, col_name, set_column_name(col_obj, col_name))

RECURSIVE transform_columns(_, _)
transform_columns(column_dict, defs) ==
    IF defs = <<>> THEN column_dict
    ELSE transform_columns(
             transform_column(column_dict, Head(defs).k, Head(defs).v),
             Tail(defs))

\* the duplicate check comparing field names in place of wire names
has_duplicate_column_name(column_dict) ==
    \E i, j \in 1..Len(column_dict) :
        i < j /\ column_dict[i].v.column_name = column_dict[j].v.column_name

\* the col_names loop: some wire name is met a second time
has_duplicate_db_field(column_dict) ==
    \E i, j \in 1..Len(column_dict) :
        i < j /\ db_field_name(column_dict[i].v) = db_field_name(column_dict[j].v)

\* db_map[col.db_field_name] = field_name, later items overwriting
make_db_map(column_dict) ==
    [w \in {db_field_name(column_dict[i].v) : i \in 1..Len(column_dict)} |->
        LET final == CHOOSE i \in 1..Len(column_dict) :
                        /\ db_field_name(column_dict[i].v) = w
                        /\ \A j \in 1..Len(column_dict) :
                               db_field_name(column_dict[j].v) = w => j <= i
        IN  column_dict[final].k]

\* the discriminator attribute (element_type / label) as attribute lookup
\* finds it: the class's own, else the first base that carries one
RECURSIVE inherited_tag(_, _)
inherited_tag(cs, bases) ==
    IF bases = <<>> THEN NoName
    ELSE IF cs[Head(bases)].tag # NoName THEN cs[Head(bases)].tag
         ELSE inherited_tag(cs, Tail(bases))

NoClass == [name |-> NoName]

ElementMetaClass_new(cs, kind, name, bases, tag, defs) ==
    LET column_dict == transform_columns(inherited_columns(cs, <<>>, bases),
                                         sorted_by_position(defs))
    IN  IF has_duplicate_db_field(column_dict)
        THEN [exc |-> "ModelException", klass |-> NoClass]
        ELSE [exc |-> NoStr,
              klass |-> [name |-> name, kind |-> kind, bases |-> bases,
                         tag |-> IF tag # NoName THEN tag
                                 ELSE inherited_tag(cs, bases),
                         _columns |-> column_dict,
                         _db_map |-> make_db_map(column_dict)]]

(***************************************************************************)
(* VertexMetaClass.__new__ / EdgeMetaClass.__new__: the result is the      *)
(* exception raised (if any), the class list and the registry afterwards.  *)
(***************************************************************************)
get_element_type(klass) == type_name(klass.name, klass.tag)
get_label(klass) == type_name(klass.name, klass.tag)

\* registration without the collision check: the newer class takes the entry
register_rebinding(cs, types, made, discriminator, exc_name) ==
    IF made.exc # NoStr
    THEN [exc |-> made.exc, classes |-> cs, types |-> types]
    ELSE [exc |-> NoStr, classes |-> Append(cs, made.klass),
          types |-> [d \in DOMAIN types \cup {discriminator} |->
                        IF d = discriminator THEN Len(cs) + 1 ELSE types[d]]]

register(cs, types, made, discriminator, exc_name) ==
    IF made.exc # NoStr
    THEN [exc |-> made.exc, classes |-> cs, types |-> types]
    ELSE IF discriminator \in DOMAIN types
         THEN [exc |-> exc_name, classes |-> cs, types |-> types]
         ELSE [exc |-> NoStr, classes |-> Append(cs, made.klass),
               types |-> (discriminator :> (Len(cs) + 1)) @@ types]

VertexMetaClass_new(cs, types, name, bases, tag, defs) ==
    LET made == ElementMetaClass_new(cs, "vertex", name, bases, tag, defs)
    IN  register(cs, types, made,
                 IF made.exc = NoStr THEN get_element_type(made.klass) ELSE NoName,
                 "ElementDefinitionException")

EdgeMetaClass_new(cs, types, name, bases, tag, defs) ==
    LET made == ElementMetaClass_new(cs, "edge", name, bases, tag, defs)
    IN  register(cs, types, made,
                 IF made.exc = NoStr THEN get_label(made.klass) ELSE NoName,
                 "ElementDefinitionException")

(***************************************************************************)
(* The state after `import thunderdome.models`: the class statements of    *)
(* Vertex (with its vid column) and Edge have run.                         *)
(***************************************************************************)
EmptyTypes == [d \in {} |-> 0]

VertexName == <<"V", "e", "r", "t", "e", "x">>
EdgeName == <<"E", "d", "g", "e">>

VidColumn == Column("UUID", NoStr, 0, FALSE, TRUE)

AfterVertex ==
    VertexMetaClass_new(<<>>, EmptyTypes, VertexName, <<>>, NoName,
                        {[k |-> "vid", v |-> VidColumn]})

AfterEdge ==
    EdgeMetaClass_new(AfterVertex.classes, EmptyTypes, EdgeName, <<>>, NoName, {})

\* the test suite's model: class TestModel(Vertex) with count and text
TestModelName == <<"T", "e", "s", "t", "M", "o", "d", "e", "l">>

AfterTestModel ==
    VertexMetaClass_new(AfterEdge.classes, AfterVertex.types, TestModelName,
                        <<1>>, NoName,
                        {[k |-> "count", v |-> Column("Integer", NoStr, 1, FALSE, TRUE)],
                         [k |-> "text", v |-> Column("Text", NoStr, 2, FALSE, FALSE)]})

(***************************************************************************)
(* Class statements a program may run.                                     *)
(***************************************************************************)
ClassNames == {<<"a", "B">>, <<"a", "_", "b">>}
ManualNames == {NoName, <<"B">>}
FieldNames == {"count", "words"}

\* the column objects a class body may bind to a field name
FieldColumns(f, pos) ==
    {Column("Text", w, pos, FALSE, FALSE) :
        w \in IF f = "words" THEN {NoStr, "count"} ELSE {NoStr}}

\* the class bodies: a set of field names, each bound to a column created at
\* its own position
ClassBodies ==
    UNION {
      UNION {
        {{[k |-> f, v |-> c[f]] : f \in fs} :
            c \in {cc \in [fs -> UNION {FieldColumns(f, pos[f]) : f \in fs}] :
                       \A f \in fs : cc[f] \in FieldColumns(f, pos[f])}}
        : pos \in {p \in [fs -> 1..Cardinality(fs)] :
                       \A f, g \in fs : f # g => p[f] # p[g]}}
      : fs \in SUBSET FieldNames}

\* the base lists of one kind that have a consistent resolution order: one
\* class, or two distinct subclasses of the root neither deriving the other
RECURSIVE derives_from(_, _, _)
derives_from(cs, c, b) ==
    \/ c = b
    \/ \E i \in 1..Len(cs[c].bases) : derives_from(cs, cs[c].bases[i], b)

BaseLists(cs, kind) ==
    LET ofKind == {c \in 1..Len(cs) : cs[c].kind = kind}
    IN  {<<c>> : c \in ofKind}
        \cup {p \in ofKind \X ofKind :
                  /\ ~derives_from(cs, p[1], p[2])
                  /\ ~derives_from(cs, p[2], p[1])}

UserClasses(cs) == Len(cs) - Len(AfterTestModel.classes)

\* no class statement run by the program yet
NoDecl == [op |-> "import", exc |-> NoStr, discriminator |-> NoName,
           bases |-> <<>>, body |-> {}]

NoInst == [cls |-> 0]
NoLast == [op |-> "start", who |-> 0, arg |-> <<>>, exc |-> NoStr, calls |-> 0,
           ret |-> <<>>, served |-> TRUE]

\* no groovy file read, no binding object made
NoMethod == [attr_name |-> NoStr]
IdleScript == gremlin_file = <<>> /\ method = NoMethod

IdleIO ==
    /\ v_inst = [s \in 1..NumVertexSlots |-> NoInst]
    /\ e_inst = [s \in 1..NumEdgeSlots |-> NoInst]
    /\ srv_v = EmptyTypes
    /\ srv_e = EmptyTypes
    /\ next_id = 1
    /\ gen_count = 0
    /\ last = NoLast

DeclInit ==
    /\ IdleIO
    /\ IdleScript
    /\ classes = AfterTestModel.classes
    /\ vertex_types = AfterTestModel.types
    /\ edge_types = AfterEdge.types
    /\ last_decl = NoDecl

\* class <name>(<bases of Vertex>): element_type = <tag>; <body>
DeclareVertex ==
    \E name \in ClassNames, tag \in ManualNames, body \in ClassBodies :
    \E bases \in BaseLists(classes, "vertex") :
        LET r == VertexMetaClass_new(classes, vertex_types, name, bases, tag, body)
        IN  /\ UserClasses(classes) < MaxClasses
            /\ classes' = r.classes
            /\ vertex_types' = r.types
            /\ last_decl' = [op |-> "vertex", exc |-> r.exc,
                             discriminator |->
                                 type_name(name, IF tag # NoName THEN tag
                                                 ELSE inherited_tag(classes, bases)),
                             bases |-> bases, body |-> body]
            /\ UNCHANGED <<edge_types, ioVars, scriptVars>>

\* class <name>(<bases of Edge>): label = <tag>; <body>
DeclareEdge ==
    \E name \in ClassNames, tag \in ManualNames, body \in ClassBodies :
    \E bases \in BaseLists(classes, "edge") :
        LET r == EdgeMetaClass_new(classes, edge_types, name, bases, tag, body)
        IN  /\ UserClasses(classes) < MaxClasses
            /\ classes' = r.classes
            /\ edge_types' = r.types
            /\ last_decl' = [op |-> "edge", exc |-> r.exc,
                             discriminator |->
                                 type_name(name, IF tag # NoName THEN tag
                                                 ELSE inherited_tag(classes, bases)),
                             bases |-> bases, body |-> body]
            /\ UNCHANGED <<vertex_types, ioVars, scriptVars>>

DeclNext == DeclareVertex \/ DeclareEdge

DeclSpec == DeclInit /\ [][DeclNext]_vars

(***************************************************************************)
(* The instance model.  Its classes are those of a program that declares   *)
(* one vertex model with a renamed wire field and one edge model.          *)
(***************************************************************************)
WildDBNamesName == <<"W", "i", "l", "d", "D", "B", "N", "a", "m", "e", "s">>
TestEdgeName == <<"T", "e", "s", "t", "E", "d", "g", "e">>

\* class WildDBNames(Vertex): content = columns.Text(db_field='words_and_whatnot')
AfterWildDBNames ==
    VertexMetaClass_new(AfterEdge.classes, AfterVertex.types, WildDBNamesName,
                        <<1>>, NoName,
                        {[k |-> "content",
                          v |-> Column("Text", "words_and_whatnot", 1, FALSE, TRUE)]})

\* class TestEdge(Edge): numbers = columns.Integer()
AfterTestEdge ==
    EdgeMetaClass_new(AfterWildDBNames.classes, AfterEdge.types, TestEdgeName,
                      <<2>>, NoName,
                      {[k |-> "numbers", v |-> Column("Integer", NoStr, 2, FALSE, TRUE)]})

WildDBNames == AfterWildDBNames.types[type_name(WildDBNamesName, NoName)]
TestEdge == AfterTestEdge.types[type_name(TestEdgeName, NoName)]

\* Python None among field values and identifiers; null among wire values
NoneVal == 0
WireNone == <<>>

\* the values a caller may give a field of each column type
UserVids == {1}
FieldValues(col) ==
    CASE col.ctype = "UUID" -> UserVids
      [] col.ctype = "Text" -> {1, 2}
      [] OTHER -> {1}

\* default vids are fresh: they lie past every vid a caller writes
GeneratedVid(n) == Cardinality(UserVids) + n

to_database(col, value) == IF value = NoneVal THEN WireNone ELSE <<value>>
to_python(col, wire) == wire[1]

\* Column.validate: a missing value takes the default (only the UUID column
\* has one), else is an error when the column is required
col_validate(col, value, fresh) ==
    IF value # NoneVal THEN [exc |-> NoStr, val |-> value, gen |-> 0]
    ELSE IF col.ctype = "UUID" THEN [exc |-> NoStr, val |-> fresh, gen |-> 1]
    ELSE IF col.required THEN [exc |-> "ValidationError", val |-> value, gen |-> 0]
    ELSE [exc |-> NoStr, val |-> value, gen |-> 0]

\* dict.get
dict_get(data, key, default) == IF key \in DOMAIN data THEN data[key] ELSE default

\* BaseElement.__init__: eid from '_id', one value container per column,
\* filled from the keyword named like the field
BaseElement_values(klass, data) ==
    [name \in od_keys(klass._columns) |->
        LET value == dict_get(data, name, WireNone)
        IN  IF value # WireNone THEN to_python(od_get(klass._columns, name), value)
            ELSE NoneVal]

Vertex_init(c, id, data) ==
    [cls |-> c, eid |-> id, values |-> BaseElement_values(classes[c], data)]

\* an edge endpoint as the edge holds it: nothing, an identifier, a live
\* Vertex object of the program (by slot), a Vertex object loaded for this
\* edge, or the list a traversal returned
Endpoint(t, ref, items) == [t |-> t, ref |-> ref, items |-> items]
NoEndpoint == Endpoint("none", 0, <<>>)

Edge_init(c, inV, outV, id, data) ==
    [cls |-> c, eid |-> id, _inV |-> inV, _outV |-> outV,
     values |-> BaseElement_values(classes[c], data)]

\* BaseElement.validate over columns i..: the values after the setattr calls
\* that ran, the exception that stopped it, the defaults it generated
RECURSIVE validate_columns(_, _, _, _)
validate_columns(cols, i, values, gen) ==
    IF i > Len(cols) THEN [exc |-> NoStr, values |-> values, gen |-> gen]
    ELSE LET name == cols[i].k
             r == col_validate(cols[i].v, values[name], GeneratedVid(gen_count + gen + 1))
         IN  IF r.exc # NoStr
             THEN [exc |-> r.exc, values |-> values, gen |-> gen]
             ELSE validate_columns(cols, i + 1, [values EXCEPT ![name] = r.val],
                                   gen + r.gen)

BaseElement_validate(inst) ==
    validate_columns(classes[inst.cls]._columns, 1, inst.values, 0)

\* as_dict joined with the setProperty lines: wire name -> wire value
wire_values(klass, values) ==
    [w \in {db_field_name(klass._columns[i].v) : i \in 1..Len(klass._columns)} |->
        LET i == CHOOSE j \in 1..Len(klass._columns) :
                     db_field_name(klass._columns[j].v) = w
        IN  to_database(klass._columns[i].v, values[klass._columns[i].k])]

\* v.setProperty for each given key, other properties kept
set_properties(props, given) ==
    [w \in DOMAIN props \cup DOMAIN given |->
        IF w \in DOMAIN given THEN given[w] ELSE props[w]]

(***************************************************************************)
(* The remote graph and the rows it answers with.                          *)
(***************************************************************************)
vertex_row(id) ==
    [_id |-> id, _type |-> "vertex", element_type |-> srv_v[id].element_type,
     _label |-> NoName, _inV |-> NoneVal, _outV |-> NoneVal,
     data |-> srv_v[id].props]

edge_row(id) ==
    [_id |-> id, _type |-> "edge", element_type |-> NoName,
     _label |-> srv_e[id].label, _inV |-> srv_e[id].inV, _outV |-> srv_e[id].outV,
     data |-> srv_e[id].props]

\* g.V("vid", it): the vertices whose vid property is the string asked for
vertices_with_vid(vid) ==
    {id \in DOMAIN srv_v :
        dict_get(srv_v[id].props, "vid", WireNone) = to_database(VidColumn, vid)}

\* a vertex another client of the service wrote, of a type this program
\* has no class for
GhostType == <<"g", "h", "o", "s", "t">>
GhostVertex(vid) == [element_type |-> GhostType, props |-> [w \in {"vid"} |-> <<vid>>]]

(***************************************************************************)
(* Element.deserialize                                                     *)
(***************************************************************************)
deserialize(row) ==
    IF row._type = "vertex"
    THEN IF row.element_type \in DOMAIN vertex_types
         THEN [exc |-> NoStr,
               obj |-> Vertex_init(vertex_types[row.element_type], row._id, row.data)]
         ELSE [exc |-> "KeyError", obj |-> NoInst]
    ELSE IF row._type = "edge"
    THEN IF row._label \in DOMAIN edge_types
         THEN [exc |-> NoStr,
               obj |-> Edge_init(edge_types[row._label],
                                 Endpoint("int", row._inV, <<>>),
                                 Endpoint("int", row._outV, <<>>),
                                 row._id, row.data)]
         ELSE [exc |-> "KeyError", obj |-> NoInst]
    ELSE [exc |-> "TypeError", obj |-> NoInst]

\* a loop that skips the rows it cannot deserialize
deserialize_all_skipping(rows) ==
    LET good == SelectSeq(rows, LAMBDA r : deserialize(r).exc = NoStr)
    IN  [exc |-> NoStr, ret |-> [i \in 1..Len(good) |-> deserialize(good[i]).obj]]

\* [Element.deserialize(r) for r in results]: the first exception ends it
deserialize_all(rows) ==
    LET got == [i \in 1..Len(rows) |-> deserialize(rows[i])]
        bad == {i \in 1..Len(rows) : got[i].exc # NoStr}
    IN  IF bad = {}
        THEN [exc |-> NoStr, ret |-> [i \in 1..Len(rows) |-> got[i].obj]]
        ELSE [exc |-> got[CHOOSE i \in bad : \A j \in bad : i <= j].exc,
              ret |-> <<>>]

\* what a finished call leaves with its caller: the exception raised or the
\* value returned, the number of execute_query calls it made, and whether
\* the service answered them
Outcome(op, who, arg, exc, calls, ret, up) ==
    [op |-> op, who |-> who, arg |-> arg, exc |-> exc, calls |-> calls, ret |-> ret,
     served |-> (calls = 0 \/ up)]

(***************************************************************************)
(* Instance operations.  Each one that reaches execute_query takes `up`:   *)
(* whether the service answers with status 200 (connection.py).            *)
(***************************************************************************)
GhostVid == Cardinality(UserVids) + MaxGen + 1
AllVids == 1..GhostVid
Ids == 1..MaxId

QueryError == "ThunderdomeQueryError"

\* no call is in progress: the caller has taken the outcome of the last one
Idle == last = NoLast

\* the caller takes the outcome of the call that just ended and goes on
Continue ==
    /\ ~Idle
    /\ last' = NoLast
    /\ UNCHANGED <<declVars, scriptVars, v_inst, e_inst, srv_v, srv_e, next_id, gen_count>>

\* the program's classes declared, no instances, and on the service one
\* vertex of another client
GraphInit ==
    /\ classes = AfterTestEdge.classes
    /\ vertex_types = AfterWildDBNames.types
    /\ edge_types = AfterTestEdge.types
    /\ last_decl = NoDecl
    /\ v_inst = [s \in 1..NumVertexSlots |-> NoInst]
    /\ e_inst = [s \in 1..NumEdgeSlots |-> NoInst]
    /\ srv_v = [id \in {1} |-> GhostVertex(GhostVid)]
    /\ srv_e = EmptyTypes
    /\ next_id = 2
    /\ gen_count = 0
    /\ last = NoLast

IOInit == IdleScript /\ GraphInit

\* the keyword arguments a caller may pass a constructor of class c
Kwargs(c) ==
    LET cols == classes[c]._columns
    IN  {d \in [od_keys(cols) -> {WireNone} \cup {<<v>> : v \in 1..2}] :
            \A name \in od_keys(cols) :
                d[name] = WireNone \/ d[name][1] \in FieldValues(od_get(cols, name))}

\* the keyword arguments of a constructor call that gives every field the
\* same value, vid perhaps excepted
FilledKwargs(c) ==
    {d \in Kwargs(c) : \A name \in DOMAIN d :
        IF name = "vid" THEN TRUE ELSE d[name] = <<1>>}

\* x = WildDBNames(**kwargs)
NewVertex(s, kwargs) ==
    /\ Idle
    /\ v_inst[s] = NoInst
    /\ \E data \in kwargs :
           v_inst' = [v_inst EXCEPT ![s] = Vertex_init(WildDBNames, NoneVal, data)]
    /\ last' = Outcome("init", s, <<>>, NoStr, 0, <<>>, TRUE)
    /\ UNCHANGED <<declVars, scriptVars, e_inst, srv_v, srv_e, next_id, gen_count>>

\* one value container per field shared by the instances of a class
setval_shared(insts, s, name, val) ==
    [k \in DOMAIN insts |->
        IF insts[k] # NoInst /\ insts[k].cls = insts[s].cls
        THEN [insts[k] EXCEPT !.values[name] = val]
        ELSE insts[k]]

\* the installed _set accessor: self._values[col_name].setval(val)
setval(insts, s, name, val) ==
    [insts EXCEPT ![s].values[name] = val]

\* x.<name> = val
SetVertexField(s) ==
    /\ Idle
    /\ v_inst[s] # NoInst
    /\ \E name \in DOMAIN v_inst[s].values :
       \E val \in {NoneVal} \cup FieldValues(od_get(classes[v_inst[s].cls]._columns, name)) :
           v_inst' = setval(v_inst, s, name, val)
    /\ last' = Outcome("set", s, <<>>, NoStr, 0, <<>>, TRUE)
    /\ UNCHANGED <<declVars, scriptVars, e_inst, srv_v, srv_e, next_id, gen_count>>

\* a save that allocates whatever the identifier
is_new_always(inst) == TRUE

\* the branch of save on `self.eid is None`
is_new(inst) == inst.eid = NoneVal

\* Vertex.save
VertexSave(s) ==
    /\ Idle
    /\ v_inst[s] # NoInst
    /\ \E up \in BOOLEAN :
       LET inst == v_inst[s]
           klass == classes[inst.cls]
           val == BaseElement_validate(inst)
           checked == [inst EXCEPT !.values = val.values]
           target == IF is_new(inst) THEN next_id ELSE inst.eid
           ran == up /\ (is_new(inst) \/ inst.eid \in DOMAIN srv_v)
           old == IF target \in DOMAIN srv_v THEN srv_v[target].props ELSE EmptyTypes
       IN  /\ gen_count + val.gen <= MaxGen
           /\ gen_count' = gen_count + val.gen
           /\ (val.exc = NoStr /\ ran /\ is_new(inst)) => next_id <= MaxId
           /\ IF val.exc # NoStr
              THEN /\ v_inst' = [v_inst EXCEPT ![s] = checked]
                   /\ last' = Outcome("save", s, <<>>, val.exc, 0, <<>>, up)
                   /\ UNCHANGED <<srv_v, next_id>>
              ELSE IF ~ran
              THEN /\ v_inst' = [v_inst EXCEPT ![s] = checked]
                   /\ last' = Outcome("save", s, <<>>, QueryError, 1, <<>>, up)
                   /\ UNCHANGED <<srv_v, next_id>>
              ELSE /\ srv_v' = [id \in DOMAIN srv_v \cup {target} |->
                                 IF id = target
                                 THEN [element_type |-> get_element_type(klass),
                                       props |-> set_properties(old,
                                                   wire_values(klass, val.values))]
                                 ELSE srv_v[id]]
                   /\ next_id' = IF is_new(inst) THEN next_id + 1 ELSE next_id
                   /\ v_inst' = [v_inst EXCEPT ![s] = [checked EXCEPT !.eid = target]]
                   /\ last' = Outcome("save", s, <<>>, NoStr, 1, <<>>, up)
    /\ UNCHANGED <<declVars, scriptVars, e_inst, srv_e>>

\* delete without its guard
delete_never_refused(inst) == FALSE

\* delete's guard: `if self.eid is None: raise`
delete_refused(inst) == inst.eid = NoneVal

\* a delete script that removes nothing
remove_nothing(vs, id) == vs

\* g.removeVertex(g.v(eid)): the vertex goes, and its edges with it
remove_vertex(vs, id) == [i \in DOMAIN vs \ {id} |-> vs[i]]
edges_without_vertex(es, id) ==
    [i \in {j \in DOMAIN es : es[j].inV # id /\ es[j].outV # id} |-> es[i]]

\* g.removeEdge(g.e(eid))
remove_edge(es, id) == [i \in DOMAIN es \ {id} |-> es[i]]

\* Vertex.delete
VertexDelete(s) ==
    /\ Idle
    /\ v_inst[s] # NoInst
    /\ \E up \in BOOLEAN :
       LET inst == v_inst[s]
       IN  IF delete_refused(inst)
           THEN /\ last' = Outcome("delete", s, <<>>, QueryError, 0, <<>>, up)
                /\ UNCHANGED <<srv_v, srv_e>>
           ELSE IF up /\ inst.eid \in DOMAIN srv_v
           THEN /\ srv_v' = remove_vertex(srv_v, inst.eid)
                /\ srv_e' = edges_without_vertex(srv_e, inst.eid)
                /\ last' = Outcome("delete", s, <<inst.eid>>, NoStr, 1, <<>>, up)
           ELSE /\ last' = Outcome("delete", s, <<inst.eid>>, QueryError, 1, <<>>, up)
                /\ UNCHANGED <<srv_v, srv_e>>
    /\ UNCHANGED <<declVars, scriptVars, v_inst, e_inst, next_id, gen_count>>

\* results = filter(None, results): the rows of the vertices the script found
found_rows(pick) ==
    LET hits == SelectSeq([i \in 1..Len(pick) |-> pick[i]], LAMBDA id : id # NoneVal)
    IN  [i \in 1..Len(hits) |-> vertex_row(hits[i])]

\* all() without its length check
lengths_unchecked(results, vids) == TRUE

\* the check `len(results) != len(vids)`
lengths_match(results, vids) == Len(results) = Len(vids)

\* Vertex.all(vids); pick[i] is the element toList()[0] yields for vids[i],
\* NoneVal when the lookup is empty
Vertex_all(vids, up, pick) ==
    IF ~up THEN [exc |-> QueryError, calls |-> 1, ret |-> <<>>]
    ELSE LET results == found_rows(pick)
         IN  IF ~lengths_match(results, vids)
             THEN [exc |-> QueryError, calls |-> 1, ret |-> <<>>]
             ELSE LET got == deserialize_all(results)
                  IN  IF got.exc = "KeyError"
                      THEN [exc |-> "IndexError", calls |-> 1, ret |-> <<>>]
                      ELSE [exc |-> got.exc, calls |-> 1, ret |-> got.ret]

\* the outcomes of vids.collect{g.V("vid", it).toList()[0]}
Picks(vids) ==
    {pick \in [1..Len(vids) -> {NoneVal} \cup DOMAIN srv_v] :
        \A i \in 1..Len(vids) :
            IF vertices_with_vid(vids[i]) = {}
            THEN pick[i] = NoneVal
            ELSE pick[i] \in vertices_with_vid(vids[i])}

SingleVids == {<<v>> : v \in AllVids}
VidLists == SingleVids \cup {<<v, w>> : v, w \in AllVids}

\* Vertex.all(vids) for one of the given lists of vids
VertexAll(lists) ==
    /\ Idle
    /\ \E vids \in lists, up \in BOOLEAN :
       \E pick \in Picks(vids) :
           LET r == Vertex_all(vids, up, pick)
           IN  last' = Outcome("all", 0, vids, r.exc, r.calls, r.ret, up)
    /\ UNCHANGED <<declVars, scriptVars, v_inst, e_inst, srv_v, srv_e, next_id, gen_count>>

\* Vertex.get(vid)
Vertex_get(vid, up, pick) ==
    LET r == Vertex_all(<<vid>>, up, pick)
    IN  IF r.exc = QueryError
        THEN [exc |-> "DoesNotExist", calls |-> r.calls, ret |-> <<>>]
        ELSE IF r.exc # NoStr THEN r
        ELSE IF Len(r.ret) > 1
        THEN [exc |-> "MultipleObjectsReturned", calls |-> r.calls, ret |-> <<>>]
        ELSE [exc |-> NoStr, calls |-> r.calls, ret |-> <<r.ret[1]>>]

VertexGet ==
    /\ Idle
    /\ \E vid \in AllVids, up \in BOOLEAN :
       \E pick \in Picks(<<vid>>) :
           LET r == Vertex_get(vid, up, pick)
           IN  last' = Outcome("get", 0, <<vid>>, r.exc, r.calls, r.ret, up)
    /\ UNCHANGED <<declVars, scriptVars, v_inst, e_inst, srv_v, srv_e, next_id, gen_count>>

\* Vertex.get_by_eid(eid); when no vertex has the identifier the service
\* answers g.v(eid) with an empty list or with a list holding null, and
\* `miss` is the exception that follows
Vertex_get_by_eid(eid, up, miss) ==
    IF ~up THEN [exc |-> QueryError, calls |-> 1, ret |-> <<>>]
    ELSE IF eid \notin DOMAIN srv_v THEN [exc |-> miss, calls |-> 1, ret |-> <<>>]
    ELSE LET got == deserialize(vertex_row(eid))
         IN  [exc |-> got.exc, calls |-> 1,
              ret |-> IF got.exc = NoStr THEN <<got.obj>> ELSE <<>>]

Misses == {"DoesNotExist", "AttributeError"}

VertexGetByEid ==
    /\ Idle
    /\ \E eid \in Ids, up \in BOOLEAN, miss \in Misses :
           LET r == Vertex_get_by_eid(eid, up, miss)
           IN  last' = Outcome("get_by_eid", 0, <<eid>>, r.exc, r.calls, r.ret, up)
    /\ UNCHANGED <<declVars, scriptVars, v_inst, e_inst, srv_v, srv_e, next_id, gen_count>>

\* the server lists elements in identifier order
RECURSIVE in_id_order(_)
in_id_order(ids) ==
    IF ids = {} THEN <<>>
    ELSE LET m == CHOOSE x \in ids : \A y \in ids : x <= y
         IN  <<m>> \o in_id_order(ids \ {m})

\* g.v(eid).<operation>() and g.v(eid).<operation>(lbl)
traversal_rows(eid, operation, label) ==
    LET labelled == {e \in DOMAIN srv_e : label = NoName \/ srv_e[e].label = label}
        outgoing == in_id_order({e \in labelled : srv_e[e].outV = eid})
        incoming == in_id_order({e \in labelled : srv_e[e].inV = eid})
    IN  CASE operation = "outE" -> [i \in 1..Len(outgoing) |-> edge_row(outgoing[i])]
          [] operation = "inE" -> [i \in 1..Len(incoming) |-> edge_row(incoming[i])]
          [] operation = "out" ->
                 [i \in 1..Len(outgoing) |-> vertex_row(srv_e[outgoing[i]].inV)]
          [] OTHER ->
                 [i \in 1..Len(incoming) |-> vertex_row(srv_e[incoming[i]].outV)]

\* Vertex._simple_traversal
Vertex_simple_traversal(inst, operation, label, up) ==
    IF ~(up /\ inst.eid \in DOMAIN srv_v)
    THEN [exc |-> QueryError, calls |-> 1, ret |-> <<>>]
    ELSE LET got == deserialize_all(traversal_rows(inst.eid, operation, label))
         IN  [exc |-> got.exc, calls |-> 1, ret |-> got.ret]

\* the traversals a caller makes: each operation without a label, and outE
\* with the label of the program's edge class
Traversals ==
    {<<operation, NoName>> : operation \in {"out", "in", "outE", "inE"}}
    \cup {<<"outE", type_name(TestEdgeName, NoName)>>}

\* Vertex.outV / inV / outE / inE
VertexTraverse(s) ==
    /\ Idle
    /\ v_inst[s] # NoInst
    /\ \E t \in Traversals, up \in BOOLEAN :
           LET operation == t[1]
               label == t[2]
               r == Vertex_simple_traversal(v_inst[s], operation, label, up)
           IN  last' = Outcome(operation, s, label, r.exc, r.calls, r.ret, up)
    /\ UNCHANGED <<declVars, scriptVars, v_inst, e_inst, srv_v, srv_e, next_id, gen_count>>

(***************************************************************************)
(* Edges.                                                                  *)
(***************************************************************************)
\* what a caller may pass as an endpoint: nothing, an identifier the service
\* has handed out, or one of its Vertex objects
EndpointArgs ==
    {NoEndpoint}
    \cup {Endpoint("int", id, <<>>) : id \in {i \in Ids : i < next_id}}
    \cup {Endpoint("slot", k, <<>>) : k \in {j \in 1..NumVertexSlots : v_inst[j] # NoInst}}

\* e = TestEdge(inV, outV, **kwargs)
NewEdge(s) ==
    /\ Idle
    /\ e_inst[s] = NoInst
    /\ \E inV \in EndpointArgs, outV \in EndpointArgs, data \in Kwargs(TestEdge) :
           e_inst' = [e_inst EXCEPT ![s] = Edge_init(TestEdge, inV, outV, NoneVal, data)]
    /\ last' = Outcome("init_edge", s, <<>>, NoStr, 0, <<>>, TRUE)
    /\ UNCHANGED <<declVars, scriptVars, v_inst, srv_v, srv_e, next_id, gen_count>>

\* e.<name> = val
SetEdgeField(s) ==
    /\ Idle
    /\ e_inst[s] # NoInst
    /\ \E name \in DOMAIN e_inst[s].values :
       \E val \in {NoneVal} \cup FieldValues(od_get(classes[e_inst[s].cls]._columns, name)) :
           e_inst' = setval(e_inst, s, name, val)
    /\ last' = Outcome("set_edge", s, <<>>, NoStr, 0, <<>>, TRUE)
    /\ UNCHANGED <<declVars, scriptVars, v_inst, srv_v, srv_e, next_id, gen_count>>

\* Edge._simple_traversal('inV' / 'outV')
Edge_simple_traversal(edge, operation, up) ==
    IF ~(up /\ edge.eid \in DOMAIN srv_e)
    THEN [exc |-> QueryError, calls |-> 1, ret |-> <<>>]
    ELSE LET v == IF operation = "inV" THEN srv_e[edge.eid].inV
                  ELSE srv_e[edge.eid].outV
             got == deserialize_all(<<vertex_row(v)>>)
         IN  [exc |-> got.exc, calls |-> 1, ret |-> got.ret]

\* the inV / outV properties: what reading one does to the endpoint the edge
\* holds, and the value the read yields
endpoint_property(edge, held, operation, up, miss) ==
    IF held.t = "none"
    THEN LET r == Edge_simple_traversal(edge, operation, up)
         IN  [exc |-> r.exc, calls |-> r.calls,
              held |-> IF r.exc = NoStr
                       THEN Endpoint("list", 0, [i \in 1..Len(r.ret) |-> r.ret[i].eid])
                       ELSE held]
    ELSE IF held.t = "int"
    THEN LET r == Vertex_get_by_eid(held.ref, up, miss)
         IN  [exc |-> r.exc, calls |-> r.calls,
              held |-> IF r.exc = NoStr THEN Endpoint("obj", r.ret[1].eid, <<>>)
                       ELSE held]
    ELSE [exc |-> NoStr, calls |-> 0, held |-> held]

\* <endpoint>.eid: a list has no eid
endpoint_eid(held) ==
    IF held.t = "list" THEN [exc |-> "AttributeError", eid |-> NoneVal]
    ELSE IF held.t = "slot" THEN [exc |-> NoStr, eid |-> v_inst[held.ref].eid]
    ELSE [exc |-> NoStr, eid |-> held.ref]

\* a validate that looks at the fields alone
Edge_validate_fields_only(edge) == BaseElement_validate(edge)

\* Edge.validate
Edge_validate(edge) ==
    IF edge.eid = NoneVal /\ (edge._inV.t = "none" \/ edge._outV.t = "none")
    THEN [exc |-> "ValidationError", values |-> edge.values, gen |-> 0]
    ELSE BaseElement_validate(edge)

\* the addEdge script of Edge.save, run with the endpoint identifiers read
add_edge(edge, calls, v1eid, v2eid, up) ==
    IF ~(up /\ v1eid \in DOMAIN srv_v /\ v2eid \in DOMAIN srv_v)
    THEN [exc |-> QueryError, calls |-> calls + 1, edge |-> edge, added |-> FALSE,
          outV |-> NoneVal, inV |-> NoneVal]
    ELSE [exc |-> NoStr, calls |-> calls + 1, edge |-> [edge EXCEPT !.eid = next_id],
          added |-> TRUE, outV |-> v1eid, inV |-> v2eid]

not_added(exc, calls, edge) ==
    [exc |-> exc, calls |-> calls, edge |-> edge, added |-> FALSE,
     outV |-> NoneVal, inV |-> NoneVal]

\* params['v2eid'] = self.outV.eid, r2 being what the read of self.outV did
read_outV_eid(edge, calls, v1eid, r2, v2, up) ==
    IF r2.exc # NoStr THEN not_added(r2.exc, calls + r2.calls, edge)
    ELSE IF v2.exc # NoStr
    THEN not_added(v2.exc, calls + r2.calls, [edge EXCEPT !._outV = r2.held])
    ELSE add_edge([edge EXCEPT !._outV = r2.held], calls + r2.calls, v1eid, v2.eid, up)

read_outV(edge, calls, v1eid, r2, up) ==
    read_outV_eid(edge, calls, v1eid, r2, endpoint_eid(r2.held), up)

\* params['v1eid'] = self.inV.eid, r1 being what the read of self.inV did
read_inV_eid(edge, r1, v1, e1, up, miss) ==
    IF r1.exc # NoStr THEN not_added(r1.exc, r1.calls, edge)
    ELSE IF v1.exc # NoStr THEN not_added(v1.exc, r1.calls, e1)
    ELSE read_outV(e1, r1.calls, v1.eid,
                   endpoint_property(e1, e1._outV, "outV", up, miss), up)

read_inV(edge, r1, up, miss) ==
    read_inV_eid(edge, r1, endpoint_eid(r1.held), [edge EXCEPT !._inV = r1.held],
                 up, miss)

\* Edge.save for an edge without identifier, after validation: the two
\* property reads, then the addEdge script
Edge_save_new(edge, up, miss) ==
    read_inV(edge, endpoint_property(edge, edge._inV, "inV", up, miss), up, miss)

\* the graph after e = g.addEdge(v1, v2, label) and the setProperty lines
with_edge(es, id, label, r, props) ==
    [i \in DOMAIN es \cup {id} |->
        IF i = id
        THEN [label |-> label, outV |-> r.outV, inV |-> r.inV, props |-> props]
        ELSE es[i]]

\* Edge.save of edge s, its eid None: r is what the reads and the script did
EdgeSaveNew(s, r, label, props, up) ==
    /\ r.added => next_id <= MaxId
    /\ e_inst' = [e_inst EXCEPT ![s] = r.edge]
    /\ last' = Outcome("save_edge", s, <<>>, r.exc, r.calls, <<>>, up)
    /\ srv_e' = IF r.added THEN with_edge(srv_e, next_id, label, r, props) ELSE srv_e
    /\ next_id' = IF r.added THEN next_id + 1 ELSE next_id

\* Edge.save of edge s, its eid set
EdgeSaveOld(s, checked, props, up) ==
    IF up /\ checked.eid \in DOMAIN srv_e
    THEN /\ srv_e' = [srv_e EXCEPT ![checked.eid].props =
                         set_properties(srv_e[checked.eid].props, props)]
         /\ e_inst' = [e_inst EXCEPT ![s] = checked]
         /\ last' = Outcome("save_edge", s, <<>>, NoStr, 1, <<>>, up)
         /\ UNCHANGED next_id
    ELSE /\ e_inst' = [e_inst EXCEPT ![s] = checked]
         /\ last' = Outcome("save_edge", s, <<>>, QueryError, 1, <<>>, up)
         /\ UNCHANGED <<srv_e, next_id>>

\* Edge.save of edge s, val being what validate did
EdgeSaveChecked(s, val, checked, up, miss) ==
    IF val.exc # NoStr
    THEN /\ e_inst' = [e_inst EXCEPT ![s] = checked]
         /\ last' = Outcome("save_edge", s, <<>>, val.exc, 0, <<>>, up)
         /\ UNCHANGED <<srv_e, next_id>>
    ELSE IF is_new(checked)
    THEN EdgeSaveNew(s, Edge_save_new(checked, up, miss),
                     get_label(classes[checked.cls]),
                     wire_values(classes[checked.cls], val.values), up)
    ELSE EdgeSaveOld(s, checked,
                     wire_values(classes[checked.cls], val.values), up)

EdgeSaveValidated(s, val, up, miss) ==
    EdgeSaveChecked(s, val, [e_inst[s] EXCEPT !.values = val.values], up, miss)

\* Edge.save
EdgeSave(s) ==
    /\ Idle
    /\ e_inst[s] # NoInst
    /\ \E up \in BOOLEAN, miss \in Misses :
           EdgeSaveValidated(s, Edge_validate(e_inst[s]), up, miss)
    /\ UNCHANGED <<declVars, scriptVars, v_inst, srv_v, gen_count>>

\* Edge.delete
EdgeDelete(s) ==
    /\ Idle
    /\ e_inst[s] # NoInst
    /\ \E up \in BOOLEAN :
       LET edge == e_inst[s]
       IN  IF delete_refused(edge)
           THEN /\ last' = Outcome("delete_edge", s, <<>>, QueryError, 0, <<>>, up)
                /\ UNCHANGED srv_e
           ELSE IF up /\ edge.eid \in DOMAIN srv_e
           THEN /\ srv_e' = remove_edge(srv_e, edge.eid)
                /\ last' = Outcome("delete_edge", s, <<edge.eid>>, NoStr, 1, <<>>, up)
           ELSE /\ last' = Outcome("delete_edge", s, <<edge.eid>>, QueryError, 1, <<>>, up)
                /\ UNCHANGED srv_e
    /\ UNCHANGED <<declVars, scriptVars, v_inst, e_inst, srv_v, next_id, gen_count>>

\* a row a script may return that is no graph element
PlainRow ==
    [_id |-> NoneVal, _type |-> "none", element_type |-> NoName, _label |-> NoName,
     _inV |-> NoneVal, _outV |-> NoneVal, data |-> EmptyTypes]

\* the row sequences a bound script may answer with
ScriptRows ==
    LET rows == {vertex_row(id) : id \in DOMAIN srv_v}
                \cup {edge_row(id) : id \in DOMAIN srv_e} \cup {PlainRow}
    IN  {<<r>> : r \in rows} \cup {<<r, PlainRow>> : r \in rows}

\* GremlinMethod.__call__: the rows the bound script returned, deserialized
GremlinMethod_call(rows, up) ==
    IF ~up THEN [exc |-> QueryError, calls |-> 1, ret |-> <<>>]
    ELSE LET got == deserialize_all(rows)
         IN  [exc |-> got.exc, calls |-> 1, ret |-> got.ret]

GremlinCall ==
    /\ Idle
    /\ \E up \in BOOLEAN :
       \E rows \in IF up THEN ScriptRows ELSE {<<>>} :
           LET r == GremlinMethod_call(rows, up)
           IN  last' = Outcome("gremlin", 0, rows, r.exc, r.calls, r.ret, up)
    /\ UNCHANGED <<declVars, scriptVars, v_inst, e_inst, srv_v, srv_e, next_id, gen_count>>

\* another client of the service links one of this program's vertices to
\* its own vertex with an edge of a label this program has no class for
OtherClientAddsEdge ==
    /\ Idle
    /\ next_id <= MaxId
    /\ \A e \in DOMAIN srv_e : srv_e[e].label # GhostType
    /\ \E v \in DOMAIN srv_v \ {1} :
           srv_e' = [id \in DOMAIN srv_e \cup {next_id} |->
                        IF id = next_id
                        THEN [label |-> GhostType, outV |-> v, inV |-> 1,
                              props |-> EmptyTypes]
                        ELSE srv_e[id]]
    /\ next_id' = next_id + 1
    /\ last' = Outcome("other_client", 0, <<>>, NoStr, 0, <<>>, TRUE)
    /\ UNCHANGED <<declVars, scriptVars, v_inst, e_inst, srv_v, gen_count>>

\* a program working with vertices alone, writing any value to any field
VertexNext ==
    \/ \E s \in 1..NumVertexSlots :
           \/ NewVertex(s, Kwargs(WildDBNames))
           \/ SetVertexField(s)
           \/ VertexSave(s)
           \/ VertexDelete(s)
    \/ VertexAll(VidLists)
    \/ VertexGet
    \/ VertexGetByEid
    \/ Continue

VertexSpec == IOInit /\ [][VertexNext]_vars

\* a program working with vertices and edges, its vertices built with every
\* field but vid given the same value
IONext ==
    \/ \E s \in 1..NumVertexSlots :
           \/ NewVertex(s, FilledKwargs(WildDBNames))
           \/ VertexSave(s)
           \/ VertexDelete(s)
           \/ VertexTraverse(s)
    \/ VertexAll(SingleVids)
    \/ VertexGet
    \/ VertexGetByEid
    \/ \E s \in 1..NumEdgeSlots :
           \/ NewEdge(s)
           \/ SetEdgeField(s)
           \/ EdgeSave(s)
           \/ EdgeDelete(s)
    \/ GremlinCall
    \/ OtherClientAddsEdge
    \/ Continue

IOSpec == IOInit /\ [][IONext]_vars

(***************************************************************************)
(* Reading the endpoints of an edge.                                       *)
(***************************************************************************)
\* the edge with what a read left in the endpoint it read
with_endpoint(edge, operation, held) ==
    IF operation = "inV" THEN [edge EXCEPT !._inV = held]
    ELSE [edge EXCEPT !._outV = held]

held_endpoint(edge, operation) ==
    IF operation = "inV" THEN edge._inV ELSE edge._outV

\* e.inV / e.outV
EdgeRead(s) ==
    /\ Idle
    /\ e_inst[s] # NoInst
    /\ \E operation \in {"inV", "outV"}, up \in BOOLEAN, miss \in Misses :
           LET r == endpoint_property(e_inst[s], held_endpoint(e_inst[s], operation),
                                      operation, up, miss)
           IN  /\ e_inst' = [e_inst EXCEPT
                                ![s] = with_endpoint(e_inst[s], operation, r.held)]
               /\ last' = Outcome(operation, s, <<>>, r.exc, r.calls,
                                  IF r.exc = NoStr THEN <<r.held>> ELSE <<>>, up)
    /\ UNCHANGED <<declVars, scriptVars, v_inst, srv_v, srv_e, next_id, gen_count>>

\* the edge objects a program makes for a saved edge from its row:
\* deserialization's TestEdge(row['_inV'], row['_outV'], **row), and
\* TestEdge(None, None, **row), which leaves the endpoints to be fetched
EdgesFromRow(id) ==
    {deserialize(edge_row(id)).obj,
     [deserialize(edge_row(id)).obj EXCEPT !._inV = NoEndpoint, !._outV = NoEndpoint]}

\* e = TestEdge(inV, outV, **row), the row being that of e's own edge
EdgeFromRow(s) ==
    /\ Idle
    /\ e_inst[s] # NoInst
    /\ e_inst[s].eid \in DOMAIN srv_e
    /\ srv_e[e_inst[s].eid].label \in DOMAIN edge_types
    /\ \E edge \in EdgesFromRow(e_inst[s].eid) :
           /\ edge # e_inst[s]
           /\ e_inst' = [e_inst EXCEPT ![s] = edge]
    /\ last' = Outcome("init_edge", s, <<>>, NoStr, 0, <<>>, TRUE)
    /\ UNCHANGED <<declVars, scriptVars, v_inst, srv_v, srv_e, next_id, gen_count>>

\* a program that makes vertices and edges, saves them and reads the edges'
\* endpoints
EdgeNext ==
    \/ \E s \in 1..NumVertexSlots :
           \/ NewVertex(s, FilledKwargs(WildDBNames))
           \/ VertexSave(s)
    \/ \E s \in 1..NumEdgeSlots :
           \/ NewEdge(s)
           \/ EdgeSave(s)
           \/ EdgeFromRow(s)
           \/ EdgeRead(s)
    \/ Continue

EdgeSpec == IOInit /\ [][EdgeNext]_vars

(***************************************************************************)
(* Field accessors.  A program with a model that has one field marked      *)
(* deletable and one that is not, constructing instances, writing their    *)
(* fields and deleting them (del x.<name>).                                *)
(***************************************************************************)
NoteName == <<"N", "o", "t", "e">>

\* class Note(Vertex): text = columns.Text(required=False)
\*                     tag = columns.Text(required=False, can_delete=True)
AfterNote ==
    VertexMetaClass_new(AfterTestEdge.classes, AfterWildDBNames.types, NoteName,
                        <<1>>, NoName,
                        {[k |-> "text", v |-> Column("Text", NoStr, 1, FALSE, FALSE)],
                         [k |-> "tag", v |-> Column("Text", NoStr, 2, TRUE, FALSE)]})

Note == AfterNote.types[type_name(NoteName, NoName)]

\* _transform_column: whether the property made for the column gets _del
has_deleter(col_obj) == ~col_obj.can_delete

\* the installed _del accessor: self._values[col_name].delval()
delval(insts, s, name) == [insts EXCEPT ![s].values[name] = NoneVal]

FieldInit ==
    /\ IdleScript
    /\ classes = AfterNote.classes
    /\ vertex_types = AfterNote.types
    /\ edge_types = AfterTestEdge.types
    /\ last_decl = NoDecl
    /\ v_inst = [s \in 1..NumVertexSlots |-> NoInst]
    /\ e_inst = [s \in 1..NumEdgeSlots |-> NoInst]
    /\ srv_v = EmptyTypes
    /\ srv_e = EmptyTypes
    /\ next_id = 1
    /\ gen_count = 0
    /\ last = NoLast

\* x = Note(**kwargs)
NewNote(s) ==
    /\ Idle
    /\ v_inst[s] = NoInst
    /\ \E data \in Kwargs(Note) :
           v_inst' = [v_inst EXCEPT ![s] = Vertex_init(Note, NoneVal, data)]
    /\ last' = Outcome("init", s, <<>>, NoStr, 0, <<>>, TRUE)
    /\ UNCHANGED <<declVars, scriptVars, e_inst, srv_v, srv_e, next_id, gen_count>>

\* del x.<name>: a property without deleter raises AttributeError
DelVertexField(s) ==
    /\ Idle
    /\ v_inst[s] # NoInst
    /\ \E name \in DOMAIN v_inst[s].values :
           IF has_deleter(od_get(classes[v_inst[s].cls]._columns, name))
           THEN /\ v_inst' = delval(v_inst, s, name)
                /\ last' = Outcome("del", s, <<name>>, NoStr, 0, <<>>, TRUE)
           ELSE /\ v_inst' = v_inst
                /\ last' = Outcome("del", s, <<name>>, "AttributeError", 0, <<>>, TRUE)
    /\ UNCHANGED <<declVars, scriptVars, e_inst, srv_v, srv_e, next_id, gen_count>>

FieldNext ==
    \/ \E s \in 1..NumVertexSlots :
           \/ NewNote(s)
           \/ SetVertexField(s)
           \/ DelVertexField(s)
    \/ Continue

FieldSpec == FieldInit /\ [][FieldNext]_vars

(***************************************************************************)
(* Script files (groovy.py).  A file is a sequence of lines; a line is the *)
(* head of a function definition, a closing brace alone, or anything else. *)
(***************************************************************************)
DefLine(name, args) == [kind |-> "def", name |-> name, args |-> args]
EndLine == [kind |-> "end", name |-> NoStr, args |-> <<>>]
StmtLine == [kind |-> "stmt", name |-> NoStr, args |-> <<>>]

\* def greet(name, times) {     and     def hello() {
GreetLine == DefLine("greet", <<"name", "times">>)
HelloLine == DefLine("hello", <<>>)

LineKinds == {GreetLine, HelloLine, EndLine, StmtLine}
Files == UNION {[1..n -> LineKinds] : n \in 1..MaxLines}

\* re.match(FuncDefnRegexp, line) and re.match(FuncEndRegexp, line)
is_def_line(line) == line.kind = "def"
is_end_line(line) == line.kind = "end"

\* the line loop of parse(file): the blocks captured from line i on, given
\* the blocks captured so far and the lines of the block that is open
RECURSIVE capture(_, _, _, _)
capture(lines, i, all_fns, fn_lines) ==
    IF i > Len(lines) THEN all_fns
    ELSE IF Len(fn_lines) > 0
    THEN IF is_end_line(lines[i])
         THEN capture(lines, i + 1, Append(all_fns, Append(fn_lines, lines[i])), <<>>)
         ELSE capture(lines, i + 1, all_fns, Append(fn_lines, lines[i]))
    ELSE IF is_def_line(lines[i])
    THEN capture(lines, i + 1, all_fns, <<lines[i]>>)
    ELSE capture(lines, i + 1, all_fns, fn_lines)

\* FuncDefn.parseString(data) succeeds: delimitedList wants one name at least
matches_FuncDefn(data) == is_def_line(data[1]) /\ Len(data[1].args) >= 1

\* what GroovyFunctionParser.parse returns: a GroovyFunction tuple, or the
\* empty dict of its except branch (is_function FALSE)
GroovyFunction(name, args, body, defn) ==
    [is_function |-> TRUE, name |-> name, args |-> args, body |-> body, defn |-> defn]
EmptyDict ==
    [is_function |-> FALSE, name |-> NoStr, args |-> <<>>, body |-> <<>>, defn |-> <<>>]

GroovyFunctionParser_parse(data) ==
    IF matches_FuncDefn(data)
    THEN GroovyFunction(data[1].name, data[1].args,
                        SubSeq(data, 2, Len(data) - 1), data)
    ELSE EmptyDict

\* groovy.parse(file)
parse(lines) ==
    LET all_fns == capture(lines, 1, <<>>, <<>>)
    IN  [i \in 1..Len(all_fns) |-> GroovyFunctionParser_parse(all_fns[i])]

(***************************************************************************)
(* Script bindings (gremlin.py).                                           *)
(***************************************************************************)
\* BaseGremlinMethod.__init__
BaseGremlinMethod_init(method_name, classmethod, default_args) ==
    [is_configured |-> FALSE, method_name |-> method_name,
     classmethod |-> classmethod, default_args |-> default_args,
     attr_name |-> NoStr, arg_list |-> <<>>,
     function_body |-> <<>>, function_def |-> <<>>]

\* the loop over parse(path) looking for method_name; reading .name of an
\* element that is a dict raises
RECURSIVE find_function(_, _, _)
find_function(objs, i, method_name) ==
    IF i > Len(objs) THEN [exc |-> NoStr, found |-> FALSE, obj |-> EmptyDict]
    ELSE IF ~objs[i].is_function
    THEN [exc |-> "AttributeError", found |-> FALSE, obj |-> EmptyDict]
    ELSE IF objs[i].name = method_name
    THEN [exc |-> NoStr, found |-> TRUE, obj |-> objs[i]]
    ELSE find_function(objs, i + 1, method_name)

seq_has(seq, x) == \E i \in 1..Len(seq) : seq[i] = x

GremlinException == "ThunderdomeGremlinException"

\* the loop over gremlin_obj.args appending to self.arg_list
RECURSIVE append_args(_, _, _)
append_args(args, i, arg_list) ==
    IF i > Len(args) THEN [exc |-> NoStr, arg_list |-> arg_list]
    ELSE IF seq_has(arg_list, args[i])
    THEN [exc |-> GremlinException, arg_list |-> arg_list]
    ELSE append_args(args, i + 1, Append(arg_list, args[i]))

\* configure_method from the point the function was looked up
configure_found(m, f) ==
    IF f.exc # NoStr THEN [exc |-> f.exc, method |-> m]
    ELSE IF ~f.found THEN [exc |-> GremlinException, method |-> m]
    ELSE LET a == append_args(f.obj.args, 1, m.arg_list)
         IN  IF a.exc # NoStr
             THEN [exc |-> a.exc, method |-> [m EXCEPT !.arg_list = a.arg_list]]
             ELSE [exc |-> NoStr,
                   method |-> [m EXCEPT !.arg_list = a.arg_list,
                                        !.function_body = f.obj.body,
                                        !.function_def = f.obj.defn]]

configure_named(m, lines) ==
    IF m.is_configured THEN [exc |-> NoStr, method |-> m]
    ELSE configure_found(m, find_function(parse(lines), 1, m.method_name))

\* BaseGremlinMethod.configure_method(klass, attr_name)
configure_method(m, attr_name, lines) ==
    configure_named([m EXCEPT !.attr_name = attr_name,
                              !.method_name = IF m.method_name # NoStr
                                              THEN m.method_name ELSE attr_name],
                    lines)

\* a Python call of a method taking `accepted` arguments after self with
\* `given` positional arguments
call_accepted(given, accepted) == given = accepted

\* the metaclass's call method.configure_method(klass, name, gremlin_path)
metaclass_configure(m, attr_name, lines) ==
    IF call_accepted(3, 2) THEN configure_method(m, attr_name, lines)
    ELSE [exc |-> "TypeError", method |-> m]

ArityError == "TypeError: takes n args"
MultipleValues == "TypeError: got multiple values for keyword argument"
UnexpectedKeyword == "TypeError: got an unexpected keyword argument"

\* len(args + kwargs.values()) > len(self.arg_list)
exceeds_arity(args, kwargs, arg_list) ==
    Len(args) + Cardinality(DOMAIN kwargs) > Len(arg_list)

\* for arg in args: params[arglist.pop(0)] = arg
bind_positional(params, arg_list, args) ==
    [k \in DOMAIN params \cup {arg_list[i] : i \in 1..Len(args)} |->
        IF \E i \in 1..Len(args) : arg_list[i] = k
        THEN args[CHOOSE i \in 1..Len(args) : arg_list[i] = k]
        ELSE params[k]]

\* the loop over kwargs.items(), taken in `order`, from its i-th item on
RECURSIVE bind_keywords(_, _, _, _, _)
bind_keywords(order, i, kwargs, arglist, params) ==
    IF i > Len(order) THEN [exc |-> NoStr, params |-> params]
    ELSE IF ~seq_has(arglist, order[i])
    THEN IF order[i] \in DOMAIN params
         THEN [exc |-> MultipleValues, params |-> params]
         ELSE [exc |-> UnexpectedKeyword, params |-> params]
    ELSE bind_keywords(order, i + 1, kwargs,
                       SelectSeq(arglist, LAMBDA x : x # order[i]),
                       [k \in DOMAIN params \cup {order[i]} |->
                           IF k = order[i] THEN kwargs[k] ELSE params[k]])

\* return execute_query(self.function_body, params)
forward_query(b, up) ==
    IF b.exc # NoStr THEN [exc |-> b.exc, calls |-> 0, params |-> <<>>]
    ELSE IF ~up THEN [exc |-> QueryError, calls |-> 1, params |-> <<b.params>>]
    ELSE [exc |-> NoStr, calls |-> 1, params |-> <<b.params>>]

\* BaseGremlinMethod.__call__ once args holds the leading identifier
call_with_args(m, args, kwargs, order, up) ==
    IF exceeds_arity(args, kwargs, m.arg_list)
    THEN [exc |-> ArityError, calls |-> 0, params |-> <<>>]
    ELSE forward_query(
             bind_keywords(order, 1, kwargs,
                           SubSeq(m.arg_list, Len(args) + 1, Len(m.arg_list)),
                           bind_positional(m.default_args, m.arg_list, args)),
             up)

\* the positional arguments after `args = [instance.eid] + args`
effective_args(m, eid, args) == IF m.classmethod THEN args ELSE <<eid>> \o args

\* BaseGremlinMethod.__call__(instance, *args, **kwargs)
BaseGremlinMethod_call(m, eid, args, kwargs, order, up) ==
    call_with_args(m, effective_args(m, eid, args), kwargs, order, up)

(***************************************************************************)
(* A program that makes one binding object beside a script file, has it    *)
(* configured, directly or by a class statement, and calls it.             *)
(***************************************************************************)
SomeValue == 7
NoArgs == [k \in {} |-> SomeValue]
DefaultArgs == {NoArgs, [k \in {"bogus"} |-> SomeValue]}
Bindings ==
    {BaseGremlinMethod_init(NoStr, c, d) : c \in BOOLEAN, d \in DefaultArgs}

AttrNames == {"greet", "hello"}
PositionalArgs == {<<>>, <<1>>, <<1, 2>>}
Keywords == {"name", "times", "bogus"}
KeywordArgs ==
    {[k \in keys |-> SomeValue] : keys \in {ks \in SUBSET Keywords : Cardinality(ks) <= 2}}
Orders(keys) ==
    {o \in [1..Cardinality(keys) -> keys] :
        \A i, j \in 1..Cardinality(keys) : o[i] = o[j] => i = j}

ScriptInit ==
    /\ GraphInit
    /\ gremlin_file \in Files
    /\ method \in Bindings

\* m.configure_method(klass, attr_name)
Configure ==
    /\ Idle
    /\ \E attr_name \in AttrNames :
           LET r == configure_method(method, attr_name, gremlin_file)
           IN  /\ method' = r.method
               /\ last' = Outcome("configure", 0, <<attr_name>>, r.exc, 0, <<>>, TRUE)
    /\ UNCHANGED <<declVars, gremlin_file, v_inst, e_inst, srv_v, srv_e,
                   next_id, gen_count>>

\* class <name>(Vertex): <attr_name> = m   -- the class statement configures
\* its bindings after the class object is made
DeclareWithBinding ==
    /\ Idle
    /\ \E attr_name \in AttrNames :
           LET r == metaclass_configure(method, attr_name, gremlin_file)
           IN  /\ method' = r.method
               /\ last' = Outcome("declare", 0, <<attr_name>>, r.exc, 0, <<>>, TRUE)
    /\ UNCHANGED <<declVars, gremlin_file, v_inst, e_inst, srv_v, srv_e,
                   next_id, gen_count>>

\* m(instance, *args, **kwargs)
ScriptCall ==
    /\ Idle
    /\ \E args \in PositionalArgs, kwargs \in KeywordArgs, up \in BOOLEAN :
       \E order \in Orders(DOMAIN kwargs) :
           LET r == BaseGremlinMethod_call(method, NoneVal, args, kwargs, order, up)
           IN  last' = Outcome("call", 0, <<args, kwargs>>, r.exc, r.calls,
                               r.params, up)
    /\ UNCHANGED <<declVars, scriptVars, v_inst, e_inst, srv_v, srv_e,
                   next_id, gen_count>>

ScriptNext ==
    \/ Configure
    \/ DeclareWithBinding
    \/ ScriptCall
    \/ Continue

ScriptSpec == ScriptInit /\ [][ScriptNext]_vars

(***************************************************************************)
(* Properties of class declaration.                                        *)
(***************************************************************************)
RegistryInjective(types, kind) ==
    /\ \A d \in DOMAIN types :
           /\ types[d] \in 1..Len(classes)
           /\ classes[types[d]].kind = kind
           /\ type_name(classes[types[d]].name, classes[types[d]].tag) = d
    /\ \A d1, d2 \in DOMAIN types : types[d1] = types[d2] => d1 = d2

RegistryKept(types, types2) ==
    \A d \in DOMAIN types : d \in DOMAIN types2 /\ types2[d] = types[d]

CollisionRaises(op, types, types2) ==
    (/\ last_decl'.op = op
     /\ last_decl'.exc # "ModelException"
     /\ last_decl'.discriminator \in DOMAIN types)
    => /\ last_decl'.exc = "ElementDefinitionException"
       /\ types2 = types
       /\ classes' = classes

\* C3: both registries are injective and append-only: every discriminator
\* keeps the class that first claimed it, and a class statement whose computed
\* discriminator is already registered raises ElementDefinitionException and
\* leaves the registry and the class list as they were.
C3_RegistryAppendOnly ==
    /\ [](RegistryInjective(vertex_types, "vertex")
          /\ RegistryInjective(edge_types, "edge"))
    /\ [][/\ RegistryKept(vertex_types, vertex_types')
          /\ RegistryKept(edge_types, edge_types')
          /\ CollisionRaises("vertex", vertex_types, vertex_types')
          /\ CollisionRaises("edge", edge_types, edge_types')]_vars

C3_Witness ==
    /\ last_decl.exc = "ElementDefinitionException"
    /\ last_decl.op = "vertex"
    /\ UserClasses(classes) > 0
    /\ last_decl.discriminator \in DOMAIN vertex_types

WireNames(klass) ==
    {db_field_name(klass._columns[i].v) : i \in 1..Len(klass._columns)}

\* C4: no class that exists has two fields with the same wire name, inherited
\* fields included; the class statement that would make one raised
\* ModelException and created nothing.
C4_NoSharedWireName ==
    \A c \in 1..Len(classes) :
        /\ Cardinality(WireNames(classes[c])) = Len(classes[c]._columns)
        /\ \A i, j \in 1..Len(classes[c]._columns) :
               i # j => /\ classes[c]._columns[i].k # classes[c]._columns[j].k
                        /\ db_field_name(classes[c]._columns[i].v)
                               # db_field_name(classes[c]._columns[j].v)

C4_Witness ==
    /\ last_decl.exc = "ModelException"
    /\ \E c \in 1..Len(classes) :
           /\ c > Len(AfterTestModel.classes)
           /\ "count" \in WireNames(classes[c])

(***************************************************************************)
(* Properties of vertex instances.                                         *)
(***************************************************************************)
VertexSlots == 1..NumVertexSlots
EdgeSlots == 1..NumEdgeSlots

\* C1: after a vertex instance is saved, Element.deserialize applied to the
\* row the service holds for it gives an instance of the same class whose
\* value for every declared field equals the saved instance's value.
C1_RoundTrip ==
    \A s \in VertexSlots :
        (last.op = "save" /\ last.who = s /\ last.exc = NoStr) =>
            LET got == deserialize(vertex_row(v_inst[s].eid))
            IN  /\ got.exc = NoStr
                /\ got.obj.cls = v_inst[s].cls
                /\ \A name \in DOMAIN v_inst[s].values :
                       got.obj.values[name] = v_inst[s].values[name]

Saved(s) == v_inst[s] # NoInst /\ v_inst[s].eid # NoneVal

\* no two instances share a server element, and the program's vertices on
\* the server are no more than its saved instances
OneElementEach ==
    /\ \A s, t \in VertexSlots :
           (s # t /\ Saved(s) /\ Saved(t)) => v_inst[s].eid # v_inst[t].eid
    /\ Cardinality({id \in DOMAIN srv_v : srv_v[id].element_type # GhostType})
           <= Cardinality({s \in VertexSlots : Saved(s)})

SaveEffect(s) ==
    LET before == v_inst[s]
        after == v_inst'[s]
        cols == classes[after.cls]._columns
    IN  IF last'.exc = NoStr
        THEN /\ after.eid # NoneVal
             /\ IF before.eid = NoneVal
                THEN /\ after.eid \notin DOMAIN srv_v
                     /\ DOMAIN srv_v' = DOMAIN srv_v \cup {after.eid}
                ELSE /\ after.eid = before.eid
                     /\ DOMAIN srv_v' = DOMAIN srv_v
             /\ \A id \in DOMAIN srv_v \ {after.eid} : srv_v'[id] = srv_v[id]
             /\ \A i \in 1..Len(cols) :
                    srv_v'[after.eid].props[db_field_name(cols[i].v)]
                        = to_database(cols[i].v, after.values[cols[i].k])
        ELSE /\ srv_v' = srv_v
             /\ after.eid = before.eid

\* C2: a save of an instance without identifier allocates exactly one new
\* server element and writes its identifier onto the instance; a save of an
\* instance with an identifier addresses that element and allocates nothing;
\* either way the element then carries the instance's values, so each
\* instance accounts for at most one server element.
C2_InsertOrUpdate ==
    /\ []OneElementEach
    /\ [][\A s \in VertexSlots :
              (last'.op = "save" /\ last'.who = s) => SaveEffect(s)]_vars

C2_Witness ==
    /\ last.op = "save"
    /\ last.exc = NoStr
    /\ v_inst[last.who].eid + 1 < next_id
    /\ \E t \in VertexSlots : t # last.who /\ Saved(t)

\* C5: a write to a field of one instance leaves every other instance, and
\* so the value read from each of its fields, as it was.
C5_Isolation ==
    [][\A a \in VertexSlots :
           (last'.op = "set" /\ last'.who = a) =>
               \A b \in VertexSlots \ {a} : v_inst'[b] = v_inst[b]]_vars

C5_Witness ==
    /\ last.op = "set"
    /\ \E a, b \in VertexSlots :
           /\ a = last.who /\ b # a
           /\ v_inst[a] # NoInst /\ v_inst[b] # NoInst
           /\ v_inst[a].cls = v_inst[b].cls
           /\ v_inst[a].values["content"] # v_inst[b].values["content"]
           /\ v_inst[b].values["content"] # NoneVal

\* C6: Vertex.all never returns fewer objects than the vids asked for, and
\* when some vid asked for resolves to no server element it raises
\* ThunderdomeQueryError.
C6_AllNeverShort ==
    last.op = "all" =>
        /\ last.exc = NoStr => Len(last.ret) = Len(last.arg)
        /\ (\E i \in 1..Len(last.arg) : vertices_with_vid(last.arg[i]) = {})
               => (last.exc = QueryError /\ last.ret = <<>>)

C6_Witness ==
    /\ last.op = "all"
    /\ last.served
    /\ Len(last.arg) = 2
    /\ \E id \in vertices_with_vid(last.arg[1]) :
           srv_v[id].element_type \in DOMAIN vertex_types
    /\ vertices_with_vid(last.arg[2]) = {}
    /\ last.exc = QueryError

\* C7: Vertex.get for a vid that two server elements carry raises
\* MultipleObjectsReturned and returns neither element.
C7_GetMultiplicity ==
    (/\ last.op = "get"
     /\ last.served
     /\ Cardinality(vertices_with_vid(last.arg[1])) >= 2)
    => (last.exc = "MultipleObjectsReturned" /\ last.ret = <<>>)

(***************************************************************************)
(* Properties of vertices and edges together.                              *)
(***************************************************************************)
Refused == last'.exc # NoStr /\ last'.calls = 0 /\ srv_v' = srv_v /\ srv_e' = srv_e

\* C8: delete on a vertex or an edge that has no identifier raises, makes no
\* call to execute_query and leaves the graph as it was.
C8_DeleteUnsaved ==
    [][/\ (last'.op = "delete" /\ v_inst[last'.who].eid = NoneVal) => Refused
       /\ (last'.op = "delete_edge" /\ e_inst[last'.who].eid = NoneVal) => Refused]_vars

C8_Witness ==
    /\ last.op = "delete_edge"
    /\ e_inst[last.who].eid = NoneVal
    /\ last.exc = QueryError
    /\ \E s \in VertexSlots : Saved(s)

\* the exceptions (NoStr for a return) Vertex.get may end with for a vid
GetAnswers(vid) == {Vertex_get(vid, TRUE, pick).exc : pick \in Picks(<<vid>>)}

EdgeGone(id) ==
    \A v \in DOMAIN srv_v :
        LET rows == traversal_rows(v, "outE", NoName)
        IN  \A i \in 1..Len(rows) : rows[i]._id # id

\* C9 as stated: once a saved vertex is deleted, Vertex.get with its vid
\* raises DoesNotExist; once an edge is deleted no outE traversal lists it.
C9_DeletedIsGone ==
    /\ (last.op = "delete" /\ last.exc = NoStr)
           => GetAnswers(v_inst[last.who].values["vid"]) = {"DoesNotExist"}
    /\ (last.op = "delete_edge" /\ last.exc = NoStr) => EdgeGone(last.arg[1])

\* C9, amended: once a saved vertex is deleted, Vertex.get with its vid
\* raises DoesNotExist provided no other server vertex carries that vid;
\* once an edge is deleted no outE traversal lists it.
C9_DeletedIsGoneUnlessShared ==
    /\ (/\ last.op = "delete" /\ last.exc = NoStr
        /\ vertices_with_vid(v_inst[last.who].values["vid"]) \ {last.arg[1]} = {})
           => GetAnswers(v_inst[last.who].values["vid"]) = {"DoesNotExist"}
    /\ (last.op = "delete_edge" /\ last.exc = NoStr) => EdgeGone(last.arg[1])

C9_Witness ==
    /\ last.op = "delete"
    /\ last.exc = NoStr
    /\ vertices_with_vid(v_inst[last.who].values["vid"]) \ {last.arg[1]} = {}
    /\ \E s \in VertexSlots : s # last.who /\ Saved(s) /\ v_inst[s].eid \in DOMAIN srv_v

Recognized(row) ==
    \/ row._type = "vertex" /\ row.element_type \in DOMAIN vertex_types
    \/ row._type = "edge" /\ row._label \in DOMAIN edge_types

RowClass(row) ==
    IF row._type = "vertex" THEN vertex_types[row.element_type]
    ELSE edge_types[row._label]

\* the objects are the rows, one for one, each of the class registered for
\* its row's discriminator
Faithful(objs, rows) ==
    /\ Len(objs) = Len(rows)
    /\ \A i \in 1..Len(rows) :
           /\ Recognized(rows[i])
           /\ objs[i].eid = rows[i]._id
           /\ objs[i].cls = RowClass(rows[i])

ServerRows ==
    {vertex_row(id) : id \in DOMAIN srv_v} \cup {edge_row(id) : id \in DOMAIN srv_e}

\* C10: Element.deserialize raises for a row whose discriminator is not
\* recognized and returns an object only for a recognized one; and whatever
\* all, get_by_eid, a traversal or a bound-script call returns holds one
\* object for every row the service answered with, so a row with an
\* unrecognized discriminator makes the call raise and is never dropped.
C10_UnrecognizedRaises ==
    /\ \A row \in ServerRows \cup {PlainRow} :
           /\ (deserialize(row).exc = NoStr) <=> Recognized(row)
           /\ ~Recognized(row) => deserialize(row).obj = NoInst
    /\ (last.op = "get_by_eid" /\ last.exc = NoStr)
           => Faithful(last.ret, <<vertex_row(last.arg[1])>>)
    /\ (last.op \in {"out", "in", "outE", "inE"} /\ last.exc = NoStr)
           => Faithful(last.ret,
                       traversal_rows(v_inst[last.who].eid, last.op, last.arg))
    /\ (last.op = "gremlin" /\ last.exc = NoStr) => Faithful(last.ret, last.arg)
    /\ (last.op = "all" /\ last.exc = NoStr)
           => /\ Len(last.ret) = Len(last.arg)
              /\ \A i \in 1..Len(last.arg) :
                     /\ last.ret[i].eid \in vertices_with_vid(last.arg[i])
                     /\ Recognized(vertex_row(last.ret[i].eid))

C10_Witness ==
    /\ last.op = "outE"
    /\ last.served
    /\ last.exc = "KeyError"
    /\ v_inst[last.who].eid \in DOMAIN srv_v
    /\ LET rows == traversal_rows(v_inst[last.who].eid, last.op, last.arg)
       IN  /\ Len(rows) = 2
           /\ Recognized(rows[1])
           /\ ~Recognized(rows[2])

(***************************************************************************)
(* Properties of script bindings.                                          *)
(***************************************************************************)
\* the arguments of the call that just ended, as __call__ counts them
CallArgs == effective_args(method, NoneVal, last.arg[1])
CallKwargs == last.arg[2]
TooMany == exceeds_arity(CallArgs, CallKwargs, method.arg_list)
\* named arguments that are no parsed parameter, and named arguments for a
\* parameter a positional argument has filled
Unparsed == {k \in DOMAIN CallKwargs : ~seq_has(method.arg_list, k)}
FilledTwice ==
    {k \in DOMAIN CallKwargs :
        \E i \in 1..Len(CallArgs) : i <= Len(method.arg_list) /\ method.arg_list[i] = k}

\* C11: a call whose arguments outnumber the parsed parameters raises the
\* arity error; otherwise one whose only fault is a named argument that is
\* no parsed parameter raises the unexpected-keyword error, and one whose
\* only fault is a named argument for a parameter filled positionally raises
\* the multiple-values error; none of them reaches execute_query.
C11_BadBindingRejected ==
    last.op = "call" =>
        /\ TooMany => (last.exc = ArityError /\ last.calls = 0)
        /\ (~TooMany /\ Unparsed # {} /\ FilledTwice = {})
               => (last.exc = UnexpectedKeyword /\ last.calls = 0)
        /\ (~TooMany /\ FilledTwice # {} /\ Unparsed = {})
               => (last.exc = MultipleValues /\ last.calls = 0)

(***************************************************************************)
(* Properties of edges.                                                    *)
(***************************************************************************)
LacksEndpoint(edge) == edge._inV.t = "none" \/ edge._outV.t = "none"

\* C12: save of an edge that has no identifier and lacks its in-endpoint or
\* its out-endpoint raises ValidationError, makes no execute_query call,
\* leaves the graph as it was and leaves the edge without identifier.
C12_NewEdgeNeedsEndpoints ==
    [][\A s \in EdgeSlots :
           (/\ last'.op = "save_edge" /\ last'.who = s
            /\ e_inst[s].eid = NoneVal /\ LacksEndpoint(e_inst[s]))
           => /\ last'.exc = "ValidationError"
              /\ last'.calls = 0
              /\ e_inst'[s].eid = NoneVal
              /\ srv_e' = srv_e /\ srv_v' = srv_v /\ next_id' = next_id]_vars

C12_Witness ==
    /\ last.op = "save_edge"
    /\ last.exc = "ValidationError"
    /\ e_inst[last.who]._inV.t = "slot"
    /\ Saved(e_inst[last.who]._inV.ref)
    /\ e_inst[last.who]._outV.t = "none"
    /\ e_inst[last.who].values["numbers"] # NoneVal

(***************************************************************************)
(* Properties of field accessors.                                          *)
(***************************************************************************)
DeletedColumn(s) == od_get(classes[v_inst[s].cls]._columns, last'.arg[1])

\* C13: del on a field marked deletable raises nothing and leaves the field
\* unset; del on a field not marked deletable raises and leaves the value
\* as it was.
C13_DeleteOnlyDeletable ==
    [][\A s \in VertexSlots :
           (last'.op = "del" /\ last'.who = s) =>
               IF DeletedColumn(s).can_delete
               THEN /\ last'.exc = NoStr
                    /\ v_inst'[s].values[last'.arg[1]] = NoneVal
               ELSE /\ last'.exc # NoStr
                    /\ v_inst'[s] = v_inst[s]]_vars

(***************************************************************************)
(* Properties of the calls made to execute_query.                          *)
(***************************************************************************)
PublicOperations ==
    {"save", "delete", "all", "get", "get_by_eid", "out", "in", "outE", "inE",
     "gremlin", "save_edge", "delete_edge"}

\* C14: no public operation makes more than one call to execute_query, the
\* save of a new edge built on integer endpoint identifiers included.
C14_OneRoundTrip ==
    last.op \in PublicOperations => last.calls <= 1

\* C16: when execute_query reports a response other than success during
\* Vertex.get, the caller receives ThunderdomeQueryError and not the
\* not-found error.
C16_GetFailureIsQueryError ==
    (last.op = "get" /\ ~last.served) => last.exc = QueryError

(***************************************************************************)
(* Properties of script files.                                             *)
(***************************************************************************)
\* the file defines the function with a head the grammar accepts
DefinedIn(lines, name) ==
    LET all_fns == capture(lines, 1, <<>>, <<>>)
    IN  \E i \in 1..Len(all_fns) :
            matches_FuncDefn(all_fns[i]) /\ all_fns[i][1].name = name

\* C15: every element of the sequence parse() returns is a signature with
\* name, parameters, body and definition text, blocks that fail the grammar
\* being left out; so a binding whose function the file defines is
\* configured whatever other blocks the file holds (the only error left
\* to it is the one of a binding that already has its parameters).
C15_MalformedBlocksSkipped ==
    /\ \A i \in 1..Len(parse(gremlin_file)) : parse(gremlin_file)[i].is_function
    /\ (last.op = "configure" /\ DefinedIn(gremlin_file, method.method_name))
           => last.exc \in {NoStr, GremlinException}

\* the binding has been configured: a definition text was stored in it
Configured(m) == m.function_def # <<>>

\* C17: configuring a binding that has been configured before, directly or
\* by the class statement of a subclass, raises no error and leaves its
\* parameter list, body and definition text as they were.
C17_SignatureImmutable ==
    [][(Configured(method) /\ last'.op \in {"configure", "declare"})
          => /\ last'.exc = NoStr
             /\ method'.arg_list = method.arg_list
             /\ method'.function_body = method.function_body
             /\ method'.function_def = method.function_def]_vars

(***************************************************************************)
(* Properties of the field mapping.                                        *)
(***************************************************************************)
\* the position among `bases` of the first base whose mapping has `name`
Definer(bases, name) ==
    CHOOSE i \in 1..Len(bases) :
        /\ name \in od_keys(classes[bases[i]]._columns)
        /\ \A j \in 1..(i - 1) : name \notin od_keys(classes[bases[j]]._columns)

InheritedNames(bases) ==
    UNION {od_keys(classes[bases[i]]._columns) : i \in 1..Len(bases)}

DeclaredNames(body) == {x.k : x \in body}

DeclaredColumn(body, name) == (CHOOSE x \in body : x.k = name).v

\* inherited names come first, in the order of the bases and, within one
\* base, in the order of its own mapping; the declared names that are new
\* follow in ascending position
FieldOrder(cols, bases, body) ==
    \A i, j \in 1..Len(cols) : i < j =>
        LET a == cols[i].k
            b == cols[j].k
        IN  /\ a # b
            /\ b \in InheritedNames(bases) => a \in InheritedNames(bases)
            /\ (a \in InheritedNames(bases) /\ b \in InheritedNames(bases)) =>
                   \/ Definer(bases, a) < Definer(bases, b)
                   \/ /\ Definer(bases, a) = Definer(bases, b)
                      /\ od_index(classes[bases[Definer(bases, a)]]._columns, a)
                           < od_index(classes[bases[Definer(bases, b)]]._columns, b)
            /\ (a \notin InheritedNames(bases) /\ b \notin InheritedNames(bases)) =>
                   cols[i].v.position < cols[j].v.position

\* a declared name holds the declared descriptor, any other name the
\* descriptor of the first base that defines it
FieldDescriptors(cols, bases, body) ==
    /\ od_keys(cols) = InheritedNames(bases) \cup DeclaredNames(body)
    /\ \A i \in 1..Len(cols) :
           IF cols[i].k \in DeclaredNames(body)
           THEN cols[i].v = set_column_name(DeclaredColumn(body, cols[i].k), cols[i].k)
           ELSE cols[i].v =
                    od_get(classes[bases[Definer(bases, cols[i].k)]]._columns, cols[i].k)

\* one entry per field, from its wire name to its field name
ReverseMap(cols, db_map) ==
    /\ DOMAIN db_map = {db_field_name(cols[i].v) : i \in 1..Len(cols)}
    /\ Cardinality(DOMAIN db_map) = Len(cols)
    /\ \A i \in 1..Len(cols) : db_map[db_field_name(cols[i].v)] = cols[i].k

\* the class the latest class statement made
Declared == classes[Len(classes)]

\* C18: the field mapping of a class a class statement has made lists the
\* inherited fields first, the first base that defines a name winning, then
\* the newly declared fields in ascending position; a redeclared field holds
\* the declared descriptor under its name; the reverse map has exactly one
\* entry per field, from wire name to field name.
C18_FieldMapping ==
    (last_decl.op \in {"vertex", "edge"} /\ last_decl.exc = NoStr) =>
        /\ FieldOrder(Declared._columns, last_decl.bases, last_decl.body)
        /\ FieldDescriptors(Declared._columns, last_decl.bases, last_decl.body)
        /\ ReverseMap(Declared._columns, Declared._db_map)

\* a class made from two bases that hold different descriptors under one
\* name, redeclaring an inherited field and declaring a new one
C18_Witness ==
    /\ last_decl.op = "vertex"
    /\ last_decl.exc = NoStr
    /\ Len(last_decl.bases) = 2
    /\ \E name \in od_keys(classes[last_decl.bases[1]]._columns)
                     \cap od_keys(classes[last_decl.bases[2]]._columns) :
           od_get(classes[last_decl.bases[1]]._columns, name)
               # od_get(classes[last_decl.bases[2]]._columns, name)
    /\ DeclaredNames(last_decl.body) \cap InheritedNames(last_decl.bases) # {}
    /\ DeclaredNames(last_decl.body) \ InheritedNames(last_decl.bases) # {}

(***************************************************************************)
(* Properties of edge endpoints.                                           *)
(***************************************************************************)
\* the edge object the row of edge `id` deserializes to
Reloaded(id) == deserialize(edge_row(id)).obj

\* C19: once an edge made as E(a, b) has been saved, the edge its server row
\* deserializes to holds a as inV and b as outV, as the edge the program
\* made does.
C19_EndpointRolesKept ==
    \A s \in 1..NumEdgeSlots :
        (/\ last.op = "save_edge"
         /\ last.who = s
         /\ last.exc = NoStr
         /\ e_inst[s].eid \in DOMAIN srv_e)
        => /\ Reloaded(e_inst[s].eid)._inV.ref = endpoint_eid(e_inst[s]._inV).eid
           /\ Reloaded(e_inst[s].eid)._outV.ref = endpoint_eid(e_inst[s]._outV).eid

\* C20: a read of inV or outV that raises nothing yields one Vertex object,
\* however the endpoint was held, and the edge holds that object afterwards,
\* so that the next read makes no call.
C20_ReadYieldsOneVertex ==
    \A s \in 1..NumEdgeSlots :
        (last.op \in {"inV", "outV"} /\ last.who = s /\ last.exc = NoStr)
        => /\ held_endpoint(e_inst[s], last.op).t \in {"slot", "obj"}
           /\ last.ret = <<held_endpoint(e_inst[s], last.op)>>

====
